---- MODULE Spec2Model ----
(***************************************************************************)
(* The task registry, the polling timer and the event dispatch of          *)
(* Aria2Monitor, with the operations of Aria2Client: createClient, the     *)
(* download and listing operations that feed the registry, the pass-       *)
(* through queries, close() and shutdown().                                *)
(*                                                                         *)
(* Every asynchronous invocation is a "flow" (one slot of thr).  A flow    *)
(* suspends at each await of the source.  An await of an RPC round trip    *)
(* is resumed by a response action, which is a macrotask of the event      *)
(* loop; an await of an already computed value is resumed by a microtask,  *)
(* and the event loop drains its microtasks before it takes the next       *)
(* macrotask (guard Drained).  Calls made by the application can happen    *)
(* between any two of these steps.  An RPC call is answered or fails; a    *)
(* failure ends the flow, whose error reaches its caller if it has one.    *)
(***************************************************************************)
EXTENDS Integers, Sequences, FiniteSets, TLC

\* ------------------------------------------------------------------ bounds
NGid == 3          \* gids known to the aria2 server: 1..NGid
MaxFlows == 4      \* slots for asynchronous invocations in one behaviour
MaxRace == 3       \* explicit queries started in one behaviour of SpecGet
NSub == 2          \* the gids 1..NSub, for the specifications that interleave every path
MaxOps == 2        \* operations started in one behaviour of those specifications
NPush == 1         \* the gids 1..NPush, for the specification of the event handlers
MaxClock == 1      \* readings of the clock: 0..MaxClock
MaxOn == 2         \* handlers registered at one time
GivenInterval == 500   \* a progressInterval passed in the options of createClient

Gids == 1..NGid
Flows == 1..MaxFlows
SubGids == 1..NSub
PushGids == 1..NPush

\* Event names: the six push notifications of start() and the poll event.
NotifyKinds == {"start", "pause", "stop", "complete", "bt-complete", "error"}
ProgressKind == "progress"

VARIABLES
  srv,          \* the server: per gid, whether it is a BitTorrent download and the gid it follows
  clock,        \* the time: new Date() on the client, the moment of a snapshot on the server
  map,          \* Aria2Monitor.map: gid -> index into tasks, 0 when absent
  tasks,        \* every Task/Torrent object constructed so far
  progressIds,  \* Aria2Monitor.progressIds, in insertion order
  handlers,     \* the emitter: number of handlers registered per <<event, gid>>
  disposed,     \* the disposables have been disposed (close() ran)
  thr,          \* the flows
  nTell,        \* tellStatus queries issued so far, per gid
  nMulticall,   \* system.multicall queries issued so far
  client        \* Aria2Client: _conn and _monitor still set, the options, the timer's period

vars == <<srv, clock, map, tasks, progressIds, handlers, disposed, thr, nTell, nMulticall, client>>

NoStatus == [gid |-> 0, bittorrent |-> FALSE, following |-> 0, ver |-> 0]

\* ------------------------------------------------------------- the client
\* line 29: the default of progressInterval
DefaultInterval == 1000

\* Options without a progressInterval, and the options of the model.
NoOption == 0
Options == {NoOption, GivenInterval}

\* lines 25-33: new Aria2Client(conn, options): the defaults, under the options.
NewClient(options) ==
  [conn |-> TRUE, monitor |-> TRUE, given |-> NoOption, interval |-> 0,
   progressInterval |-> IF options = NoOption THEN DefaultInterval ELSE options]

\* lines 215-217: monitor.start() arms the timer with client.options.progressInterval.
Start(c) == [c EXCEPT !.interval = c.progressInterval]

\* lines 138-150: createClient(socket, options) hands secret, timeout and
\* openTimeout to open(), constructs the client from the connection alone
\* (line 146) and starts the monitor.
CreateClient(options) == [Start(NewClient(NoOption)) EXCEPT !.given = options]

\* lines 35-40 and 50-55: the getters throw once close() has cleared the fields.
ConnGetAlways == TRUE
ConnGet == client.conn
MonitorGet == client.monitor
ClosedError == "Connection has been closed"

\* The errors an RPC call can fail with.
Causes == {"timeout", "refused"}

\* ------------------------------------------------------------- the server
\* A download's class and the gid it follows are fixed when the server creates
\* it; the model fixes them in the first answer of the server that reports
\* them.  The gids form no cycle through `following`.
Unknown == [known |-> FALSE, bittorrent |-> FALSE, following |-> 0]

Attrs(g) ==
  {[known |-> TRUE, bittorrent |-> b, following |-> f] : b \in BOOLEAN, f \in 0..(g - 1)}

\* The servers that agree with every server of C and have fixed every gid of G.
RECURSIVE Extend(_, _)
Extend(C, G) ==
  IF G = {} THEN C
  ELSE LET g == CHOOSE x \in G : TRUE
       IN Extend({[c EXCEPT ![g] = a] :
                    c \in C, a \in (IF srv[g].known THEN {srv[g]} ELSE Attrs(g))},
                 G \ {g})

Reveals(G) == Extend({srv}, G)

\* The answer of server c to tellStatus(g) at this moment.
Snapshot(c, g) ==
  [gid |-> g, bittorrent |-> c[g].bittorrent, following |-> c[g].following, ver |-> clock]

\* --------------------------------------------------------------- the flows
Idle ==
  [kind |-> "none", pc |-> "idle", gid |-> 0, ev |-> "", fresh |-> FALSE,
   stack |-> <<>>, ret |-> 0, st |-> NoStatus, todo |-> <<>>, params |-> <<>>,
   owner |-> 0, result |-> 0, results |-> <<>>, asked |-> 0, late |-> FALSE,
   before |-> {}, post |-> {}, err |-> "", at |-> 0, op |-> "", cause |-> ""]

Used == {t \in Flows : thr[t].kind # "none"}
NextSlot == Cardinality(Used) + 1

Keys == {g \in Gids : map[g] # 0}

ItemsOf(t) == {i \in Flows : thr[i].kind = "item" /\ thr[i].owner = t}

\* A continuation is queued as a microtask: a flow holding a value to deliver,
\* or a Promise.all whose promises are all resolved.
Joinable(t) ==
  /\ thr[t].kind = "list"
  /\ thr[t].pc = "join"
  /\ \A i \in ItemsOf(t) : thr[i].pc = "done"

Drained == \A t \in Flows : thr[t].pc # "ret" /\ ~Joinable(t)

\* An operation of the client that a getter stops before its RPC call: the
\* caller receives the error of lines 37 and 52.
Refused(kind, op) ==
  [Idle EXCEPT !.kind = kind, !.op = op, !.pc = "rejected", !.err = ClosedError]

\* ----------------------------------------------------- Aria2Monitor.getTask
\* line 245 and line 250: this.map.has(gid)
Has(g) == map[g] # 0

RecheckNever(g) == FALSE
Recheck(g) == Has(g)

\* lines 255-257: the class of the object constructed for a status
NewTaskByFollowing(g, status, following) ==
  [gid |-> g, torrent |-> (status.following # 0), following |-> following,
   status |-> NoStatus, timestamp |-> 0, by |-> 0]
NewTask(g, status, following) ==
  [gid |-> g, torrent |-> status.bittorrent,
   following |-> IF status.bittorrent THEN following ELSE 0,
   status |-> NoStatus, timestamp |-> 0, by |-> 0]

\* new Date()
Now == clock

\* Reflect.set(task, '_status', status); Reflect.set(task, '_timestamp', new Date())
ApplyStale(ts, i, status) ==
  [ts EXCEPT ![i].status = status, ![i].timestamp = status.ver]
Apply(ts, i, status) ==
  [ts EXCEPT ![i].status = status, ![i].timestamp = Now]

\* this.map.set(gid, task)
RegisterNothing(m, g, i) == m
Register(m, g, i) == [m EXCEPT ![g] = i]

\* lines 255-263: construct, register, set status and timestamp; the flow then
\* holds the new object as the value its caller awaits.
Construct(t, g, status, following) ==
  LET i == Len(tasks) + 1 IN
  /\ tasks' = Apply(Append(tasks, [NewTask(g, status, following) EXCEPT !.by = t]), i, status)
  /\ map' = Register(map, g, i)
  /\ thr' = [thr EXCEPT ![t].stack = SubSeq(@, 1, Len(@) - 1),
                        ![t].pc = "ret", ![t].ret = i]

\* The synchronous part of getTask(g), up to its first await, run by flow th:
\* the registered object is returned at once, otherwise tellStatus is issued.
EnterAlways(th, g) ==
  [th EXCEPT !.pc = "rpc",
             !.stack = Append(@, [gid |-> g, status |-> NoStatus]),
             !.asked = IF g = th.gid THEN @ + 1 ELSE @]
Enter(th, g) ==
  IF Has(g)
  THEN [th EXCEPT !.pc = "ret", !.ret = map[g]]
  ELSE EnterAlways(th, g)

\* The tellStatus counter after flows entered getTask for the gids of seq.
RECURSIVE Issued(_, _)
Issued(n, seq) ==
  IF seq = <<>> THEN n
  ELSE Issued(IF Has(Head(seq)) THEN n ELSE [n EXCEPT ![Head(seq)] = @ + 1], Tail(seq))

\* monitor.getTask(g) called by the application.
GetTaskCall(g) ==
  /\ NextSlot \in Flows
  /\ thr' = [thr EXCEPT ![NextSlot] =
               Enter([Idle EXCEPT !.kind = "getTask", !.gid = g, !.fresh = ~Has(g),
                        !.post = {d \in Flows : /\ thr[d].kind = "download"
                                                 /\ thr[d].pc = "done"
                                                 /\ thr[d].gid = g}], g)]
  /\ nTell' = Issued(nTell, <<g>>)
  /\ UNCHANGED <<client, srv, clock, map, tasks, progressIds, handlers, disposed, nMulticall>>

\* line 248 resumes with the status; lines 250-254.
TellStatusResp(t) ==
  /\ Drained
  /\ thr[t].pc = "rpc"
  /\ \E c \in Reveals({thr[t].stack[Len(thr[t].stack)].gid}) :
     LET top == thr[t].stack[Len(thr[t].stack)]
         g == top.gid
         status == Snapshot(c, g)
     IN
     /\ srv' = c
     /\ IF Recheck(g)
        THEN /\ thr' = [thr EXCEPT ![t].stack = SubSeq(@, 1, Len(@) - 1),
                                   ![t].pc = "ret", ![t].ret = map[g]]
             /\ UNCHANGED <<map, tasks, nTell>>
        ELSE IF status.following # 0
        THEN /\ thr' = [thr EXCEPT ![t] =
                          Enter([thr[t] EXCEPT !.stack[Len(thr[t].stack)].status = status],
                                status.following)]
             /\ nTell' = Issued(nTell, <<status.following>>)
             /\ UNCHANGED <<map, tasks>>
        ELSE /\ Construct(t, g, status, 0)
             /\ UNCHANGED nTell
  /\ UNCHANGED <<client, clock, progressIds, handlers, disposed, nMulticall>>

\* line 254 resumes with the parent task; lines 255-263.
ResumeFollowing(t) ==
  /\ thr[t].pc = "ret"
  /\ thr[t].stack # <<>>
  /\ LET top == thr[t].stack[Len(thr[t].stack)]
     IN Construct(t, top.gid, top.status, thr[t].ret)
  /\ UNCHANGED <<client, srv, clock, progressIds, handlers, disposed, nTell, nMulticall>>

\* The caller of monitor.getTask receives the task.
ReturnTask(t) ==
  /\ thr[t].pc = "ret"
  /\ thr[t].stack = <<>>
  /\ thr[t].kind = "getTask"
  /\ thr' = [thr EXCEPT ![t].pc = "done", ![t].result = thr[t].ret]
  /\ UNCHANGED <<client, srv, clock, map, tasks, progressIds, handlers, disposed, nTell, nMulticall>>

\* ------------------------------------------------------------- the emitter
\* lines 273-279: progressIds is a Set: add(id) keeps one occurrence.
AddAgain(ids, g) == Append(ids, g)
SetAdd(ids, g) == IF \E i \in 1..Len(ids) : ids[i] = g THEN ids ELSE Append(ids, g)

Registered == LET RECURSIVE Sum(_)
                  Sum(K) == IF K = {} THEN 0
                            ELSE LET k == CHOOSE x \in K : TRUE
                                 IN handlers[k] + Sum(K \ {k})
              IN Sum(DOMAIN handlers)

\* monitor.on(`${ev}:${g}`, handler)
On(ev, g) ==
  /\ Registered < MaxOn
  /\ handlers' = [handlers EXCEPT ![<<ev, g>>] = @ + 1]
  /\ progressIds' = IF ev = ProgressKind THEN SetAdd(progressIds, g) ELSE progressIds
  /\ UNCHANGED <<client, srv, clock, map, tasks, disposed, thr, nTell, nMulticall>>

\* lines 281-283: off() reaches the emitter only: progressIds stays as it is.
ShrinkOnOff(ids, ev, g) ==
  IF ev = ProgressKind THEN SelectSeq(ids, LAMBDA x : x # g) ELSE ids
AfterOff(ids, ev, g) == ids

\* monitor.off(`${ev}:${g}`, handler) removes one registration of the handler;
\* monitor.off(`${ev}:${g}`) removes every handler of the key.
Off(ev, g, all) ==
  /\ handlers[<<ev, g>>] > 0
  /\ handlers' = [handlers EXCEPT ![<<ev, g>>] = IF all THEN 0 ELSE @ - 1]
  /\ progressIds' = AfterOff(progressIds, ev, g)
  /\ UNCHANGED <<client, srv, clock, map, tasks, disposed, thr, nTell, nMulticall>>

\* this.emitter.emit(`${ev}:${g}`, task): whether a handler runs, and whether it
\* runs after close().
Invokes(ev, g) == handlers[<<ev, g>>] > 0
Late(ev, g) == disposed /\ Invokes(ev, g)

\* lines 225-227
Close ==
  /\ disposed' = TRUE
  /\ UNCHANGED <<client, srv, clock, map, tasks, progressIds, handlers, thr, nTell, nMulticall>>

\* ------------------------------------------------------ push notifications
\* lines 195-212 and 314-337: a notification for g arrives while subscribed.
Notify(ev, g) ==
  /\ Drained
  /\ ~disposed
  /\ NextSlot \in Flows
  /\ thr' = [thr EXCEPT ![NextSlot] =
               Enter([Idle EXCEPT !.kind = "notify", !.ev = ev, !.gid = g,
                                  !.fresh = ~Has(g)], g)]
  /\ nTell' = Issued(nTell, <<g>>)
  /\ UNCHANGED <<client, srv, clock, map, tasks, progressIds, handlers, disposed, nMulticall>>

\* the await of getTask resumes and the event is emitted
EmitNotify(t) ==
  /\ thr[t].pc = "ret"
  /\ thr[t].stack = <<>>
  /\ thr[t].kind = "notify"
  /\ thr' = [thr EXCEPT ![t].pc = "done", ![t].result = thr[t].ret,
                        ![t].late = Late(thr[t].ev, thr[t].gid)]
  /\ UNCHANGED <<client, srv, clock, map, tasks, progressIds, handlers, disposed, nTell, nMulticall>>

\* ------------------------------------------------------------ the poll tick
\* The loop of lines 300-311 at the status s (followed by rest): freshTask is
\* read and getTask entered; past the last status the tick ends.
Iterate(th, sts) ==
  IF sts = <<>>
  THEN [th EXCEPT !.pc = "done", !.todo = <<>>]
  ELSE Enter([th EXCEPT !.st = Head(sts), !.gid = Head(sts).gid,
                        !.fresh = ~Has(Head(sts).gid), !.todo = Tail(sts)],
             Head(sts).gid)

\* lines 215-222: the interval fires until dispose() clears it, whatever became
\* of the callbacks it ran before.
TimerRunsUntilError == ~disposed /\ \A t \in Flows : thr[t].pc # "unhandled"
TimerRuns == ~disposed

\* lines 215-217 and 287-299: the timer fires.  The flow records the time of
\* its multicall, the ticks that had failed before it and the gids that had a
\* progress handler.
TickStart ==
  /\ Drained
  /\ TimerRuns
  /\ NextSlot \in Flows
  /\ IF Len(progressIds) = 0
     THEN /\ thr' = [thr EXCEPT ![NextSlot] = [Idle EXCEPT !.kind = "tick", !.pc = "done"]]
          /\ UNCHANGED nMulticall
     ELSE /\ thr' = [thr EXCEPT ![NextSlot] =
                       [Idle EXCEPT !.kind = "tick", !.pc = "multicall",
                                    !.params = progressIds, !.at = clock,
                                    !.before = {g \in Gids : Invokes(ProgressKind, g)},
                                    !.post = {d \in Flows : thr[d].pc = "unhandled"}]]
          /\ nMulticall' = nMulticall + 1
  /\ UNCHANGED <<client, srv, clock, map, tasks, progressIds, handlers, disposed, nTell>>

\* line 290 resumes with one status per parameter; line 300 and on.
MulticallResp(t) ==
  /\ Drained
  /\ thr[t].pc = "multicall"
  /\ \E c \in Reveals({thr[t].params[i] : i \in 1..Len(thr[t].params)}) :
       LET sts == [i \in 1..Len(thr[t].params) |-> Snapshot(c, thr[t].params[i])]
       IN /\ srv' = c
          /\ thr' = [thr EXCEPT ![t] = Iterate(thr[t], sts)]
          /\ nTell' = Issued(nTell, <<sts[1].gid>>)
  /\ UNCHANGED <<client, clock, map, tasks, progressIds, handlers, disposed, nMulticall>>

\* line 305 resumes with the task; lines 306-310, then the next iteration.
TickStep(t) ==
  /\ thr[t].pc = "ret"
  /\ thr[t].stack = <<>>
  /\ thr[t].kind = "tick"
  /\ tasks' = IF thr[t].fresh THEN tasks ELSE Apply(tasks, thr[t].ret, thr[t].st)
  /\ thr' = [thr EXCEPT ![t] =
               Iterate([thr[t] EXCEPT !.late = @ \/ Late(ProgressKind, thr[t].gid),
                                      !.results = Append(@, thr[t].ret)],
                       thr[t].todo)]
  /\ nTell' = Issued(nTell, IF thr[t].todo = <<>> THEN <<>> ELSE <<Head(thr[t].todo).gid>>)
  /\ UNCHANGED <<client, srv, clock, map, progressIds, handlers, disposed, nMulticall>>

\* --------------------------------------------------------------- listActive
\* The elements of a set of gids, in the order of the server's answer.
RECURSIVE SeqOf(_)
SeqOf(S) ==
  IF S = {} THEN <<>>
  ELSE LET g == CHOOSE x \in S : \A y \in S : x <= y
       IN <<g>> \o SeqOf(S \ {g})

\* client.listActive() / monitor.listActive(): line 230 issues tellActive.
ListActiveCall ==
  /\ NextSlot \in Flows
  /\ thr' = [thr EXCEPT ![NextSlot] =
               IF MonitorGet
               THEN [Idle EXCEPT !.kind = "list", !.op = "listActive",
                                 !.pc = "tellActive", !.before = Keys]
               ELSE Refused("list", "listActive")]
  /\ UNCHANGED <<client, srv, clock, map, tasks, progressIds, handlers, disposed, nTell, nMulticall>>

\* line 230 resumes with the statuses of the active gids S; lines 231-234 start
\* one asynchronous callback per status, each up to its await of getTask.
TellActiveResp(t, S) ==
  /\ Drained
  /\ thr[t].pc = "tellActive"
  /\ Cardinality(Used) + Cardinality(S) <= MaxFlows
  /\ \E c \in Reveals(S) :
       LET seq == SeqOf(S)
           base == Cardinality(Used)
           item(k) == Enter([Idle EXCEPT !.kind = "item", !.gid = seq[k],
                                         !.st = Snapshot(c, seq[k]),
                                         !.fresh = ~Has(seq[k]), !.owner = t],
                            seq[k])
       IN /\ srv' = c
          /\ thr' = [i \in Flows |->
                       IF i = t THEN [thr[t] EXCEPT !.pc = "join", !.params = seq]
                       ELSE IF i \in (base + 1)..(base + Len(seq)) THEN item(i - base)
                       ELSE thr[i]]
          /\ nTell' = Issued(nTell, seq)
  /\ UNCHANGED <<client, clock, map, tasks, progressIds, handlers, disposed, nMulticall>>

\* line 234 resumes with the task; lines 235-239.
ItemStep(t) ==
  /\ thr[t].pc = "ret"
  /\ thr[t].stack = <<>>
  /\ thr[t].kind = "item"
  /\ tasks' = IF thr[t].fresh THEN tasks ELSE Apply(tasks, thr[t].ret, thr[t].st)
  /\ thr' = [thr EXCEPT ![t].pc = "done", ![t].result = thr[t].ret]
  /\ UNCHANGED <<client, srv, clock, map, progressIds, handlers, disposed, nTell, nMulticall>>

\* Promise.all of line 231 resolves: listActive returns the tasks.
ListActiveDone(t) ==
  /\ Joinable(t)
  /\ thr' = [thr EXCEPT ![t].pc = "done",
                        ![t].results =
                          [k \in 1..Len(thr[t].params) |->
                             thr[CHOOSE i \in ItemsOf(t) : thr[i].gid = thr[t].params[k]].result]]
  /\ UNCHANGED <<client, srv, clock, map, tasks, progressIds, handlers, disposed, nTell, nMulticall>>

\* ----------------------------------------------- downloadUri, downloadTorrent
\* client.downloadUri / client.downloadTorrent: the add call is issued.
DownloadCall(method) ==
  /\ NextSlot \in Flows
  /\ thr' = [thr EXCEPT ![NextSlot] =
               IF ConnGet
               THEN [Idle EXCEPT !.kind = "download", !.op = method, !.pc = method]
               ELSE Refused("download", method)]
  /\ UNCHANGED <<client, srv, clock, map, tasks, progressIds, handlers, disposed, nTell, nMulticall>>

\* The add call yields gid g, a download the server created for this call: it
\* follows no other download, and addTorrent creates a BitTorrent download.
\* lines 102-104 / 119-121: monitor.watchStatus(g).
AddResp(t, g) ==
  /\ Drained
  /\ thr[t].pc \in {"addUri", "addTorrent"}
  /\ \E c \in Reveals({g}) :
       /\ c[g].following = 0
       /\ thr[t].pc = "addTorrent" => c[g].bittorrent
       /\ srv' = c
  /\ thr' = [thr EXCEPT ![t] = Enter([thr[t] EXCEPT !.gid = g, !.fresh = ~Has(g)], g)]
  /\ nTell' = Issued(nTell, <<g>>)
  /\ UNCHANGED <<client, clock, map, tasks, progressIds, handlers, disposed, nMulticall>>

\* lines 267-270: watchStatus returns the task to the caller of download*.
ReturnWatch(t) ==
  /\ thr[t].pc = "ret"
  /\ thr[t].stack = <<>>
  /\ thr[t].kind = "download"
  /\ thr' = [thr EXCEPT ![t].pc = "done", ![t].result = thr[t].ret]
  /\ UNCHANGED <<client, srv, clock, map, tasks, progressIds, handlers, disposed, nTell, nMulticall>>

\* ----------------------------------------------------------------- failures
\* No line of the source catches the rejection of tellStatus or multicall: it
\* reaches whoever awaits the flow.  The caller of getTask, listActive and
\* download* awaits it; the notification callbacks (lines 195-212) and the
\* callback of the timer (lines 215-217) are awaited by nobody.
ThrownToNobody(kind) == "unhandled"
Thrown(kind) == IF kind \in {"notify", "tick"} THEN "unhandled" ELSE "rejected"

\* The flow ends with the error; its stack keeps the queries it was resolving.
Fail(th, e) == [th EXCEPT !.pc = Thrown(th.kind), !.err = e]

\* line 248 throws: the rejection passes through every getTask in progress
\* (lines 254, 268, 305, 315-336).  A failure inside listActive is not modelled.
TellStatusFail(t, e) ==
  /\ Drained
  /\ thr[t].pc = "rpc"
  /\ thr[t].kind # "item"
  /\ thr' = [thr EXCEPT ![t] = Fail(thr[t], e)]
  /\ UNCHANGED <<client, srv, clock, map, tasks, progressIds, handlers, disposed, nTell, nMulticall>>

\* line 290 throws.
MulticallFail(t, e) ==
  /\ Drained
  /\ thr[t].pc = "multicall"
  /\ thr' = [thr EXCEPT ![t] = Fail(thr[t], e)]
  /\ UNCHANGED <<client, srv, clock, map, tasks, progressIds, handlers, disposed, nTell, nMulticall>>

\* lines 99-101 and 116-118: .catch((error) => ({ error })): the rejection of
\* the add call becomes a value that is no string.
Caught(e) == [error |-> e]

\* lines 102 and 119: throw gid.error
RethrownAsClosed(w) == ClosedError
Rethrown(w) == w.error

\* The add call fails with e: lines 99-102 / 116-119.
AddFail(t, e) ==
  /\ Drained
  /\ thr[t].pc \in {"addUri", "addTorrent"}
  /\ thr' = [thr EXCEPT ![t] = Fail([thr[t] EXCEPT !.cause = e], Rethrown(Caught(e)))]
  /\ UNCHANGED <<client, srv, clock, map, tasks, progressIds, handlers, disposed, nTell, nMulticall>>

\* ------------------------------------------------- the rest of Aria2Client
\* lines 80-89 and 129-135: version, globalStat, listWaiting and listStopped
\* pass one call to the server.
MethodOf ==
  [version |-> "getVersion", globalStat |-> "getGlobalStat",
   listWaiting |-> "tellWaiting", listStopped |-> "tellStopped"]
PassOps == DOMAIN MethodOf
PassMethods == {MethodOf[o] : o \in PassOps}

PassCall(o) ==
  /\ NextSlot \in Flows
  /\ thr' = [thr EXCEPT ![NextSlot] =
               IF ConnGet
               THEN [Idle EXCEPT !.kind = "pass", !.op = o, !.pc = MethodOf[o]]
               ELSE Refused("pass", o)]
  /\ UNCHANGED <<client, srv, clock, map, tasks, progressIds, handlers, disposed, nTell, nMulticall>>

\* The call settles: the caller receives the answer, or the error.
PassSettle(t, e) ==
  /\ Drained
  /\ thr[t].pc \in PassMethods
  /\ thr' = [thr EXCEPT ![t] = IF e = "" THEN [thr[t] EXCEPT !.pc = "done"]
                                ELSE Fail(thr[t], e)]
  /\ UNCHANGED <<client, srv, clock, map, tasks, progressIds, handlers, disposed, nTell, nMulticall>>

\* lines 57-62: close(this.conn) closes the connection, the monitor is closed
\* and both fields are cleared.
Closed(c) == [c EXCEPT !.conn = FALSE, !.monitor = FALSE]

\* client.close(), a synchronous call: it returns, or throws at line 58.
ClientClose ==
  /\ NextSlot \in Flows
  /\ IF ConnGet
     THEN /\ thr' = [thr EXCEPT ![NextSlot] =
                       [Idle EXCEPT !.kind = "close", !.op = "close", !.pc = "done"]]
          /\ client' = Closed(client)
          /\ disposed' = TRUE
     ELSE /\ thr' = [thr EXCEPT ![NextSlot] = Refused("close", "close")]
          /\ UNCHANGED <<client, disposed>>
  /\ UNCHANGED <<srv, clock, map, tasks, progressIds, handlers, nTell, nMulticall>>

\* lines 70-72: the method shutdown(force) calls.
ShutdownMethod(force) == IF force THEN "forceShutdown" ELSE "shutdown"

\* lines 71-72: .catch(() => undefined): the promise awaited at line 74 is
\* fulfilled whether the call was answered (e = "") or failed with e.
RethrowShutdown(e) == IF e = "" THEN "done" ELSE "rejected"
AwaitShutdown(e) == "done"

\* lines 69-73: client.shutdown(force) issues the call and closes the client.
ShutdownCall(force) ==
  /\ NextSlot \in Flows
  /\ IF ConnGet
     THEN /\ thr' = [thr EXCEPT ![NextSlot] =
                       [Idle EXCEPT !.kind = "shutdown", !.op = ShutdownMethod(force),
                                    !.params = <<force>>, !.pc = ShutdownMethod(force)]]
          /\ client' = Closed(client)
          /\ disposed' = TRUE
     ELSE /\ thr' = [thr EXCEPT ![NextSlot] =
                       [Refused("shutdown", ShutdownMethod(force)) EXCEPT !.params = <<force>>]]
          /\ UNCHANGED <<client, disposed>>
  /\ UNCHANGED <<srv, clock, map, tasks, progressIds, handlers, nTell, nMulticall>>

\* line 74 resumes when the call has settled; the flow keeps the error the
\* call failed with as its cause.
ShutdownSettle(t, e) ==
  /\ Drained
  /\ thr[t].pc \in {"shutdown", "forceShutdown"}
  /\ thr' = [thr EXCEPT ![t].pc = AwaitShutdown(e), ![t].cause = e]
  /\ UNCHANGED <<client, srv, clock, map, tasks, progressIds, handlers, disposed, nTell, nMulticall>>

\* Time passes.
Advance ==
  /\ clock < MaxClock
  /\ clock' = clock + 1
  /\ UNCHANGED <<client, srv, map, tasks, progressIds, handlers, disposed, thr, nTell, nMulticall>>

\* The state once createClient(socket, options) has returned the client.
Created(options) ==
  /\ client = CreateClient(options)
  /\ srv = [g \in Gids |-> Unknown]
  /\ clock = 0
  /\ map = [g \in Gids |-> 0]
  /\ tasks = <<>>
  /\ progressIds = <<>>
  /\ handlers = [k \in (NotifyKinds \cup {ProgressKind}) \X Gids |-> 0]
  /\ disposed = FALSE
  /\ thr = [t \in Flows |-> Idle]
  /\ nTell = [g \in Gids |-> 0]
  /\ nMulticall = 0

Init == Created(NoOption)

InitConnect == \E o \in Options : Created(o)

\* ---------------------------------------------------------- specifications
\* Operations started so far (the callbacks of a listActive are part of it).
Ops == Cardinality({t \in Flows : thr[t].kind \notin {"none", "item"}})

\* Concurrent explicit queries.
NextGet ==
  \/ Ops < MaxRace /\ \E g \in Gids : GetTaskCall(g)
  \/ \E t \in Flows : TellStatusResp(t)
  \/ \E t \in Flows : ResumeFollowing(t)
  \/ \E t \in Flows : ReturnTask(t)

SpecGet == Init /\ [][NextGet]_vars

\* Concurrent explicit queries, over the gids 1..NSub.
NextGetSub ==
  \/ Ops < MaxOps /\ \E g \in SubGids : GetTaskCall(g)
  \/ \E t \in Flows : TellStatusResp(t)
  \/ \E t \in Flows : ResumeFollowing(t)
  \/ \E t \in Flows : ReturnTask(t)

SpecGetSub == Init /\ [][NextGetSub]_vars

\* Push notifications, poll ticks, handlers and close(), over the gids 1..NPush.
NextPush ==
  \/ Ops < MaxOps /\ \E ev \in NotifyKinds, g \in PushGids : Notify(ev, g)
  \/ Ops < MaxOps /\ TickStart
  \/ \E ev \in NotifyKinds \cup {ProgressKind}, g \in PushGids : On(ev, g)
  \/ \E ev \in NotifyKinds \cup {ProgressKind}, g \in PushGids, all \in BOOLEAN : Off(ev, g, all)
  \/ Close
  \/ \E t \in Flows : TellStatusResp(t)
  \/ \E t \in Flows : EmitNotify(t)
  \/ \E t \in Flows : MulticallResp(t)
  \/ \E t \in Flows : TickStep(t)

SpecPush == Init /\ [][NextPush]_vars

\* The paths that stamp a task with the time, while time passes.
NextTime ==
  \/ Ops < MaxOps /\ \E g \in SubGids : GetTaskCall(g)
  \/ Ops < MaxOps /\ TickStart
  \/ Ops < MaxOps /\ ListActiveCall
  \/ \E g \in SubGids : On(ProgressKind, g)
  \/ \E t \in Flows : TellStatusResp(t)
  \/ \E t \in Flows : ResumeFollowing(t)
  \/ \E t \in Flows : ReturnTask(t)
  \/ \E t \in Flows : MulticallResp(t)
  \/ \E t \in Flows : TickStep(t)
  \/ \E t \in Flows, S \in SUBSET SubGids : TellActiveResp(t, S)
  \/ \E t \in Flows : ItemStep(t)
  \/ \E t \in Flows : ListActiveDone(t)
  \/ Advance

SpecTime == Init /\ [][NextTime]_vars

\* Download submissions, with the download-start notifications of the server
\* and explicit queries beside them.
NextDl ==
  \/ Ops < MaxOps /\ \E m \in {"addUri", "addTorrent"} : DownloadCall(m)
  \/ Ops < MaxOps /\ \E g \in SubGids : Notify("start", g)
  \/ Ops < MaxOps /\ \E g \in SubGids : GetTaskCall(g)
  \/ \E t \in Flows, g \in SubGids : AddResp(t, g)
  \/ \E t \in Flows : ReturnWatch(t)
  \/ \E t \in Flows : TellStatusResp(t)
  \/ \E t \in Flows : ResumeFollowing(t)
  \/ \E t \in Flows : ReturnTask(t)
  \/ \E t \in Flows : EmitNotify(t)

SpecDl == Init /\ [][NextDl]_vars

\* Progress handlers and poll ticks.
NextPoll ==
  \/ Ops < MaxOps /\ TickStart
  \/ \E g \in SubGids : On(ProgressKind, g)
  \/ \E g \in SubGids, all \in BOOLEAN : Off(ProgressKind, g, all)
  \/ \E t \in Flows : MulticallResp(t)
  \/ \E t \in Flows : TickStep(t)
  \/ \E t \in Flows : TellStatusResp(t)
  \/ \E t \in Flows : ResumeFollowing(t)

SpecPoll == Init /\ [][NextPoll]_vars

\* listActive calls, with explicit queries beside them, while time passes.
NextList ==
  \/ Ops < MaxOps /\ ListActiveCall
  \/ Ops < MaxOps /\ \E g \in SubGids : GetTaskCall(g)
  \/ \E t \in Flows, S \in SUBSET SubGids : TellActiveResp(t, S)
  \/ \E t \in Flows : ItemStep(t)
  \/ \E t \in Flows : ListActiveDone(t)
  \/ \E t \in Flows : TellStatusResp(t)
  \/ \E t \in Flows : ResumeFollowing(t)
  \/ \E t \in Flows : ReturnTask(t)
  \/ Advance

SpecList == Init /\ [][NextList]_vars

\* Every path that creates or updates a registry entry, over the gids 1..NSub.
Next ==
  \/ Ops < MaxOps /\ \E g \in SubGids : GetTaskCall(g)
  \/ Ops < MaxOps /\ \E ev \in NotifyKinds, g \in SubGids : Notify(ev, g)
  \/ Ops < MaxOps /\ TickStart
  \/ Ops < MaxOps /\ ListActiveCall
  \/ Ops < MaxOps /\ \E m \in {"addUri", "addTorrent"} : DownloadCall(m)
  \/ \E g \in SubGids : On(ProgressKind, g)
  \/ \E t \in Flows : TellStatusResp(t)
  \/ \E t \in Flows : ResumeFollowing(t)
  \/ \E t \in Flows : ReturnTask(t)
  \/ \E t \in Flows : EmitNotify(t)
  \/ \E t \in Flows : MulticallResp(t)
  \/ \E t \in Flows : TickStep(t)
  \/ \E t \in Flows, S \in SUBSET SubGids : TellActiveResp(t, S)
  \/ \E t \in Flows : ItemStep(t)
  \/ \E t \in Flows : ListActiveDone(t)
  \/ \E t \in Flows, g \in SubGids : AddResp(t, g)
  \/ \E t \in Flows : ReturnWatch(t)

Spec == Init /\ [][Next]_vars

\* Explicit queries whose status queries can fail, over the gids 1..NSub.
NextFail ==
  \/ Ops < MaxOps /\ \E g \in SubGids : GetTaskCall(g)
  \/ \E t \in Flows : TellStatusResp(t)
  \/ \E t \in Flows, e \in Causes : TellStatusFail(t, e)
  \/ \E t \in Flows : ResumeFollowing(t)
  \/ \E t \in Flows : ReturnTask(t)

SpecFail == Init /\ [][NextFail]_vars

\* Download submissions whose add call can fail, with the download-start
\* notifications of the server and explicit queries beside them.
NextSubmit ==
  \/ Ops < MaxOps /\ \E m \in {"addUri", "addTorrent"} : DownloadCall(m)
  \/ Ops < MaxOps /\ \E g \in SubGids : Notify("start", g)
  \/ Ops < MaxOps /\ \E g \in SubGids : GetTaskCall(g)
  \/ \E t \in Flows, g \in SubGids : AddResp(t, g)
  \/ \E t \in Flows, e \in Causes : AddFail(t, e)
  \/ \E t \in Flows : ReturnWatch(t)
  \/ \E t \in Flows : TellStatusResp(t)
  \/ \E t \in Flows : ResumeFollowing(t)
  \/ \E t \in Flows : ReturnTask(t)
  \/ \E t \in Flows : EmitNotify(t)

SpecSubmit == Init /\ [][NextSubmit]_vars

\* The operations of the client, with close() and shutdown() among them.
NextClient ==
  \/ Ops < MaxRace /\ \E o \in PassOps : PassCall(o)
  \/ Ops < MaxRace /\ \E m \in {"addUri", "addTorrent"} : DownloadCall(m)
  \/ Ops < MaxRace /\ ListActiveCall
  \/ Ops < MaxRace /\ \E force \in BOOLEAN : ShutdownCall(force)
  \/ Ops < MaxRace /\ ClientClose
  \/ \E t \in Flows, e \in Causes \cup {""} : PassSettle(t, e)
  \/ \E t \in Flows, e \in Causes \cup {""} : ShutdownSettle(t, e)

SpecClient == Init /\ [][NextClient]_vars

\* Progress handlers and poll ticks of a client created with any options.
SpecConnect == InitConnect /\ [][NextPoll]_vars

\* The polling timer with failing queries, over the gids 1..NSub.  The timer
\* fires as long as it is armed, and the event loop runs its microtasks.
NextTimer ==
  \/ Ops < MaxOps /\ TickStart
  \/ \E g \in SubGids : On(ProgressKind, g)
  \/ Close
  \/ \E t \in Flows : MulticallResp(t)
  \/ \E t \in Flows, e \in Causes : MulticallFail(t, e)
  \/ \E t \in Flows : TellStatusResp(t)
  \/ \E t \in Flows, e \in Causes : TellStatusFail(t, e)
  \/ \E t \in Flows : ResumeFollowing(t)
  \/ \E t \in Flows : TickStep(t)

SpecTimer ==
  /\ Init /\ [][NextTimer]_vars
  /\ WF_vars(Ops < MaxOps /\ TickStart)
  /\ WF_vars(\E t \in Flows : ResumeFollowing(t))
  /\ WF_vars(\E t \in Flows : TickStep(t))

\* ------------------------------------------------------------------ claims
GetTaskFlows == {t \in Flows : thr[t].kind = "getTask"}
Done(t) == thr[t].pc = "done"

\* C1: getTask(gid) calls that all found no registry entry for gid (so they
\* were in flight together) all resolve to the same Task instance.
C1_SameInstance ==
  \A a, b \in GetTaskFlows :
    (/\ thr[a].gid = thr[b].gid
     /\ thr[a].fresh /\ thr[b].fresh
     /\ Done(a) /\ Done(b))
    => thr[a].result = thr[b].result

FreshCalls(g) == {t \in GetTaskFlows : thr[t].gid = g /\ thr[t].fresh}

C10_ParentIsRegistered ==
  \A t \in GetTaskFlows :
    (/\ Done(t)
     /\ srv[thr[t].gid].known
     /\ srv[thr[t].gid].bittorrent
     /\ srv[thr[t].gid].following # 0)
    => /\ tasks[thr[t].result].torrent
       /\ tasks[thr[t].result].following = map[srv[thr[t].gid].following]
       /\ tasks[thr[t].result].following < thr[t].result

\* C3: no event handler is invoked after close() has returned, also not by a
\* notification or a tick that was in flight when close() was called.
C3_NoHandlerAfterClose == \A t \in Flows : ~thr[t].late

Instances == 1..Len(tasks)

\* C4: at most one Task instance is ever created per gid, so a registry entry
\* is never replaced by another instance.
C4_OneInstancePerGid ==
  \A i, j \in Instances : tasks[i].gid = tasks[j].gid => i = j

\* C5: a registry entry whose current status carries bittorrent metadata is a
\* Torrent, whichever path created it and whichever path updated its status.
C5_TorrentIfBittorrent ==
  \A g \in Gids :
    (map[g] # 0 /\ tasks[map[g]].status.bittorrent) => tasks[map[g]].torrent

\* An update path (poll tick or listActive) has written a status into a Torrent.
C5_Witness ==
  \E t \in Flows :
    /\ thr[t].kind \in {"tick", "item"}
    /\ thr[t].pc = "done"
    /\ ~thr[t].fresh
    /\ \E i \in Instances : /\ i = map[tasks[i].gid]
                            /\ tasks[i].torrent
                            /\ tasks[i].status.bittorrent
                            /\ tasks[i].by # t
                            /\ (thr[t].result = i \/ \E k \in 1..Len(thr[t].results) : thr[t].results[k] = i)

\* C6: the timestamp of a task, and the timestamp of the entry registered for
\* a gid, never decreases from one update application to the next.
C6_TimestampMonotone ==
  [][/\ \A i \in Instances : tasks'[i].timestamp >= tasks[i].timestamp
     /\ \A g \in Gids : map[g] # 0 =>
          /\ map'[g] # 0
          /\ tasks'[map'[g]].timestamp >= tasks[map[g]].timestamp]_vars

\* A task whose status was applied after time had passed since it was answered.
C6_Witness ==
  \E t \in Flows :
    /\ thr[t].kind \in {"tick", "item"}
    /\ ~thr[t].fresh
    /\ thr[t].ret # 0
    /\ tasks[thr[t].ret].status = thr[t].st
    /\ tasks[thr[t].ret].timestamp > thr[t].st.ver

DownloadFlows == {t \in Flows : thr[t].kind = "download"}

\* C7: the task returned by downloadUri / downloadTorrent has the gid the add
\* call yielded, and every later getTask of that gid returns the same instance.
C7_DownloadIdentity ==
  \A d \in DownloadFlows :
    Done(d) =>
      /\ tasks[thr[d].result].gid = thr[d].gid
      /\ map[thr[d].gid] = thr[d].result
      /\ \A t \in GetTaskFlows :
           (d \in thr[t].post /\ Done(t)) => thr[t].result = thr[d].result

C7_Witness ==
  \E d \in DownloadFlows, t \in GetTaskFlows :
    /\ Done(d) /\ Done(t)
    /\ d \in thr[t].post
    /\ thr[t].result = thr[d].result

NoDuplicate(seq) == \A i, j \in 1..Len(seq) : seq[i] = seq[j] => i = j
Range(seq) == {seq[i] : i \in 1..Len(seq)}

TickFlows == {t \in Flows : thr[t].kind = "tick"}

\* C8: a poll tick issues no RPC call when no gid is subscribed; otherwise it
\* issues one multicall whose parameters hold every subscribed gid once.
C8_OneBatchPerTick ==
  [][/\ nMulticall' # nMulticall =>
          \E t \in Flows : thr[t].kind = "none" /\ thr'[t].kind = "tick"
     /\ \A t \in Flows :
       (thr[t].kind = "none" /\ thr'[t].kind = "tick") =>
         IF Range(progressIds) = {}
         THEN /\ nMulticall' = nMulticall
              /\ nTell' = nTell
              /\ thr'[t].pc = "done"
         ELSE /\ nMulticall' = nMulticall + 1
              /\ nTell' = nTell
              /\ thr'[t].pc = "multicall"
              /\ Range(thr'[t].params) = Range(progressIds)
              /\ NoDuplicate(thr'[t].params)]_vars

\* A tick has issued its multicall after two handlers were registered for one gid.
C8_Witness ==
  \E t \in TickFlows, g \in Gids :
    /\ thr[t].pc = "multicall"
    /\ handlers[<<ProgressKind, g>>] = 2
    /\ thr[t].params = <<g>>

ListFlows == {t \in Flows : thr[t].kind = "list"}

\* The gids a listActive call registered itself.
AddedBy(t) == {tasks[i].gid : i \in {k \in Instances : tasks[k].by \in ItemsOf(t)}}

\* g and the gids it follows, directly or not.
RECURSIVE Up(_)
Up(g) == IF g = 0 \/ ~srv[g].known THEN {} ELSE {g} \cup Up(srv[g].following)

\* C9 as stated: after listActive completes with statuses for S, the key set
\* is the key set before the call united with S: the call adds the gids of S
\* and no other.
C9_ListKeysExact ==
  \A t \in ListFlows :
    Done(t) => /\ thr[t].before \cup Range(thr[t].params) \subseteq Keys
               /\ AddedBy(t) \subseteq Range(thr[t].params)

\* C9 amended: after listActive completes with statuses for S, the key set
\* contains the key set before the call united with S, and the gids the call
\* added beyond S are the gids that gids of S follow; each returned task is an
\* instance of its gid; an entry tracked when the answer arrives is updated in
\* place with the returned status and the time of the update.
C9_ListReconciles ==
  /\ [](\A t \in ListFlows :
          Done(t) => /\ thr[t].before \cup Range(thr[t].params) \subseteq Keys
                     /\ AddedBy(t) \subseteq UNION {Up(g) : g \in Range(thr[t].params)}
                     /\ \A k \in 1..Len(thr[t].params) :
                          tasks[thr[t].results[k]].gid = thr[t].params[k])
  /\ [][\A t \in Flows :
          (/\ thr[t].kind = "item" /\ ~thr[t].fresh
           /\ thr[t].pc = "ret" /\ thr'[t].pc = "done")
          => /\ map[thr[t].gid] = thr'[t].result
             /\ map' = map
             /\ tasks'[thr'[t].result].status = thr[t].st
             /\ tasks'[thr'[t].result].timestamp = clock]_vars

\* A second listActive has completed: it updated an entry the first had
\* created and added a gid together with the gid that one follows.
C9_Witness ==
  \E t \in ListFlows, i \in Flows :
    /\ Done(t)
    /\ thr[t].before # {}
    /\ i \in ItemsOf(t) /\ ~thr[i].fresh
    /\ tasks[thr[i].result].status = thr[i].st
    /\ \E g \in AddedBy(t) : srv[g].following # 0

FailedTick(t) == thr[t].kind = "tick" /\ thr[t].pc = "unhandled"

\* C11: a failure of the multicall or of a status query during one tick does
\* not stop the timer: the failing step leaves the timer and the subscription
\* set as they are, and as long as the Monitor is not closed a later tick
\* starts and issues its multicall (while the behaviour has a tick left).
C11_TicksGoOn ==
  /\ [][\A t \in Flows :
          (~FailedTick(t) /\ FailedTick(t)') =>
            (disposed' = disposed /\ progressIds' = progressIds)]_vars
  /\ \A t \in Flows :
       (FailedTick(t) /\ ~disposed /\ Ops < MaxOps)
         ~> (disposed \/ \E u \in TickFlows : t \in thr[u].post /\ thr[u].params # <<>>)

\* A tick that started after an earlier tick had failed has issued its multicall.
C11_Witness ==
  \E t, u \in TickFlows :
    /\ FailedTick(t)
    /\ t \in thr[u].post
    /\ thr[u].pc = "multicall"
    /\ ~disposed

\* C12: an error raised during a poll tick (by the multicall or by the status
\* query of a returned gid) is contained in the tick: it reaches no caller and
\* is no unhandled rejection.
C12_TickErrorContained ==
  \A t \in TickFlows : thr[t].pc \notin {"unhandled", "rejected"}

\* C13: when the status query of getTask(gid) fails, for gid or for the
\* parent it follows, the caller receives the error, the failing step leaves
\* the registry and every task as they are, and the call has inserted no entry.
C13_QueryErrorPropagates ==
  /\ [](\A t \in GetTaskFlows :
          /\ thr[t].pc # "unhandled"
          /\ thr[t].pc = "rejected" =>
                /\ thr[t].err \in Causes
                /\ thr[t].result = 0
                /\ \A i \in Instances : tasks[i].by # t)
  /\ [][\A t \in GetTaskFlows :
          (thr[t].pc = "rpc" /\ thr'[t].pc \notin {"rpc", "ret"}) =>
            /\ thr'[t].pc = "rejected"
            /\ map' = map
            /\ tasks' = tasks]_vars

\* A getTask was rejected by the query of the parent its gid follows, while
\* the registry held an entry.
C13_Witness ==
  \E t \in GetTaskFlows :
    /\ thr[t].pc = "rejected"
    /\ Len(thr[t].stack) = 2
    /\ thr[t].stack[1].status.following = thr[t].stack[2].gid
    /\ Keys # {}

\* An RPC call of the flow is awaiting its answer.
Pending(th) ==
  th.pc \in {"rpc", "multicall", "tellActive", "addUri", "addTorrent",
             "shutdown", "forceShutdown"} \cup PassMethods

\* C14: once close() has run, every operation of the client (version,
\* globalStat, downloadUri, downloadTorrent, listActive, listWaiting,
\* listStopped, shutdown, close) fails with the closed error and issues no
\* RPC call.
C14_ClosedRefuses ==
  [][\A t \in Flows :
       (~client.conn /\ thr[t].kind = "none" /\ thr'[t].kind # "none") =>
         /\ thr'[t].pc = "rejected"
         /\ thr'[t].err = ClosedError
         /\ ~Pending(thr'[t])
         /\ \A u \in Flows \ {t} : thr'[u] = thr[u]
         /\ nTell' = nTell /\ nMulticall' = nMulticall
         /\ client' = client]_vars

\* After close(), a second close() and one of every other kind of operation
\* have been refused.
C14_Witness ==
  /\ \E t \in Flows : thr[t].kind = "close" /\ thr[t].pc = "done"
  /\ \E t, u \in Flows :
       /\ t # u
       /\ thr[t].pc = "rejected" /\ thr[t].err = ClosedError
       /\ thr[u].pc = "rejected" /\ thr[u].err = ClosedError
       /\ thr[t].kind = "close"
       /\ thr[u].kind \in {"pass", "download", "list", "shutdown"}

ShutdownFlows == {t \in Flows : thr[t].kind = "shutdown" /\ thr[t].err # ClosedError}

\* C15: shutdown(force) issues shutdown, or forceShutdown when force is true,
\* on the open connection and closes the client in the same turn; it returns
\* only when the call has settled, it does not fail when the call failed, and
\* the client stays closed.
C15_ShutdownCloses ==
  /\ [](\A t \in ShutdownFlows :
          /\ thr[t].op = (IF thr[t].params[1] THEN "forceShutdown" ELSE "shutdown")
          /\ thr[t].pc \in {thr[t].op, "done"}
          /\ ~client.conn /\ ~client.monitor /\ disposed)
  /\ [][\A t \in Flows :
          /\ (thr[t].kind = "none" /\ thr'[t].kind = "shutdown" /\ client.conn) =>
                thr'[t].pc = thr'[t].op
          /\ (thr[t].kind = "shutdown" /\ thr[t].pc # "done" /\ thr'[t].pc = "done") =>
                thr[t].pc = thr[t].op]_vars

\* A forced shutdown has returned although its call failed.
C15_Witness ==
  \E t \in ShutdownFlows :
    /\ thr[t].pc = "done"
    /\ thr[t].cause \in Causes
    /\ thr[t].params = <<TRUE>>
    /\ thr[t].op = "forceShutdown"

\* C16: when the add call of downloadUri or downloadTorrent fails, the
\* operation is rejected with the error the call failed with, no status query
\* is issued and no registry entry is created.
C16_SubmissionError ==
  /\ [](\A d \in DownloadFlows :
          thr[d].cause # "" =>
            /\ thr[d].pc = "rejected"
            /\ thr[d].err = thr[d].cause
            /\ thr[d].asked = 0 /\ thr[d].stack = <<>> /\ thr[d].gid = 0
            /\ \A i \in Instances : tasks[i].by # d)
  /\ [][\A d \in Flows :
          (thr[d].pc \in {"addUri", "addTorrent"} /\ thr'[d].cause # "") =>
            (nTell' = nTell /\ map' = map /\ tasks' = tasks)]_vars

\* A downloadTorrent was rejected with the timeout of its add call, beside a
\* submission that returned its task.
C16_Witness ==
  \E d, o \in DownloadFlows :
    /\ thr[d].pc = "rejected" /\ thr[d].op = "addTorrent"
    /\ thr[d].cause = "timeout" /\ thr[d].err = "timeout"
    /\ Done(o)

NotifyFlows == {t \in Flows : thr[t].kind = "notify"}

\* C17: the events of the push notifications of one gid are emitted in the
\* order the notifications were received: when the event of a notification is
\* emitted, the event of every notification received before it for the same
\* gid has been emitted.  (Flows are numbered in the order they start.)
C17_EmitInArrivalOrder ==
  [][\A t \in NotifyFlows :
       (thr[t].pc # "done" /\ thr'[t].pc = "done") =>
         \A u \in NotifyFlows :
           (u < t /\ thr[u].gid = thr[t].gid) => thr[u].pc = "done"]_vars

\* C18: when a tick emits the progress event of gid g, for which its multicall
\* returned the snapshot s, the status of the registry entry of g is s or the
\* answer to a query issued after the multicall, so an answer received no
\* earlier than the multicall was issued.
C18_ProgressNotOlder ==
  [][\A t \in TickFlows :
       (thr[t].pc = "ret" /\ thr[t].stack = <<>> /\ thr'[t].results # thr[t].results) =>
         LET entry == tasks'[map'[thr[t].gid]]
         IN \/ entry.status = thr[t].st
            \/ entry.status.ver >= thr[t].at]_vars

\* C19: the timer of a client obtained through createClient runs at the
\* progressInterval of the options passed to it, and at 1000 ms when none is
\* given.
C19_IntervalAsGiven ==
  client.interval = IF client.given = NoOption THEN DefaultInterval ELSE client.given

\* C20: on('progress:<gid>', h) adds gid to the subscription set; the set only
\* grows, whatever on() and off() are called with; every tick that issues a
\* multicall queries every gid of the set.
C20_SubscriptionsOnlyGrow ==
  [][/\ \A g \in Gids :
          handlers'[<<ProgressKind, g>>] > handlers[<<ProgressKind, g>>]
            => g \in Range(progressIds')
     /\ Range(progressIds) \subseteq Range(progressIds')
     /\ \A t \in Flows :
          (thr[t].kind = "none" /\ thr'[t].kind = "tick") =>
            Range(progressIds) \subseteq Range(thr'[t].params)]_vars

\* A tick has queried a gid whose last progress handler had been removed
\* before the timer fired.
C20_Witness ==
  \E t \in TickFlows, g \in Gids :
    /\ g \in Range(thr[t].params)
    /\ g \notin thr[t].before
    /\ thr[t].pc = "multicall"

====
